---------------------------- MODULE Spec2Model ----------------------------
(***************************************************************************)
(* The upload form of josephhjoo/re-report: the two form controllers       *)
(* (ReportGenerator in src/App.jsx, App in src/unnamed/part_001) and the   *)
(* transport client analyzeData (src/api.js, src/unnamed/part_000).        *)
(*                                                                         *)
(* JavaScript runs every handler to its next await without interruption,   *)
(* so one action is one such run: the synchronous part of handleSubmit up  *)
(* to the fetch, and each continuation from the settling of an awaited     *)
(* promise to the next await or to the end of the function.                *)
(*                                                                         *)
(* A JavaScript string is a TLA+ string: \o is concatenation (and template  *)
(* interpolation), SubSeq is substring.  null and undefined are the two     *)
(* strings NULL and UNDEFINED, which no title, file name, URL or message    *)
(* of the model equals.                                                     *)
(***************************************************************************)
EXTENDS Integers, Sequences, FiniteSets, TLC

\* ------------------------------------------------------------- bounds
\* Requests issued in one run of the model.
MaxRequests == 2

\* ------------------------------------------------------------- values
\* JavaScript's null and undefined.
NULL == "null"
UNDEFINED == "undefined"

\* What the user types in the title field: nothing, whitespace only, a
\* plain title, titles with whitespace before, after and around the text,
\* and a title with whitespace inside.
Titles == {"", " ", "a", " a", "a ", " a ", "a a"}
\* The file of the picker; e.target.files[0] is undefined when none is chosen.
Files == {"data.csv"}
FileChoices == Files \cup {UNDEFINED}

\* JavaScript truthiness of the values the handlers test: null, undefined and
\* the empty string are falsy.
Truthy(v) == v \notin {NULL, UNDEFINED, ""}

IsWhitespace(c) == c = " "

RECURSIVE TrimStart(_)
TrimStart(s) ==
    IF s # "" /\ IsWhitespace(SubSeq(s, 1, 1))
    THEN TrimStart(SubSeq(s, 2, Len(s)))
    ELSE s

RECURSIVE TrimEnd(_)
TrimEnd(s) ==
    IF s # "" /\ IsWhitespace(SubSeq(s, Len(s), Len(s)))
    THEN TrimEnd(SubSeq(s, 1, Len(s) - 1))
    ELSE s

\* String.prototype.trim
Trim(s) == TrimEnd(TrimStart(s))

\* ------------------------------------------------------------- network
Statuses == {200, 404, 500}
\* The test without its upper end: res.status >= 200
Ok_noUpperEnd(status) == status >= 200

\* Response.ok
Ok(status) == status >= 200 /\ status <= 299

\* A parsed JSON value: an object with its fields, or null.
JsonObject(fields) == [type |-> "object", fields |-> fields]
JsonNull == [type |-> "null"]

\* What the backend may answer with.  A body is the PDF, JSON text (its
\* parsed value is kept), text that is no JSON, or a body whose transfer
\* breaks off.
PdfBody == [kind |-> "pdf"]
JsonBody(v) == [kind |-> "json", value |-> v]
TextBody == [kind |-> "text"]
BrokenBody == [kind |-> "broken"]
ErrorBodies ==
    { JsonBody(JsonObject([error |-> "bad data"])),
      JsonBody(JsonObject([error |-> ""])),
      JsonBody(JsonObject([message |-> "bad data"])),
      JsonBody(JsonNull),
      TextBody,
      BrokenBody }
Responses ==
    { [status |-> s, body |-> b] : s \in {s \in Statuses : Ok(s)},
                                   b \in {PdfBody, BrokenBody} }
    \cup
    { [status |-> s, body |-> b] : s \in {s \in Statuses : ~Ok(s)},
                                   b \in ErrorBodies }
NoResponse == [status |-> 0, body |-> [kind |-> "none"]]

\* The exceptions of the model: the name and the message of the Error.
\* fetch and the body readers reject with a TypeError (the text is that of
\* Chromium).
NetworkErrors ==
    { [name |-> "TypeError", message |-> "Failed to fetch"] }
SyntaxError == [name |-> "SyntaxError", message |-> "Unexpected token"]
NullTypeError ==
    [name |-> "TypeError", message |-> "Cannot read properties of null"]

\* obj.key of a parsed JSON object
Get(obj, key) ==
    IF key \in DOMAIN obj.fields THEN obj.fields[key] ELSE UNDEFINED

\* ------------------------------------------------------------- state
VARIABLES
    component,    \* which controller is mounted
    reportTitle,  \* ReportGenerator's title field
    name,         \* App's name field
    file,         \* the selected file
    loading,      \* ReportGenerator's loading flag
    pdfUrl,       \* the object URL displayed
    error,        \* the message displayed
    calls,        \* the handleSubmit calls that issued a request, in order
    objectUrls,   \* the object URLs created and not revoked
    lastEvent     \* history: the event that led to this state

vars == <<component, reportTitle, name, file, loading, pdfUrl, error, calls,
          objectUrls, lastEvent>>

Components == {"ReportGenerator", "App"}

\* The title of the mounted controller.
Title == IF component = "ReportGenerator" THEN reportTitle ELSE name

\* A handleSubmit call suspended at an await: where it is, the request it
\* sent, the response it holds, and how its promise settled.
Call(pc, request, response, promise) ==
    [pc |-> pc, request |-> request, response |-> response, promise |-> promise]

\* A call that has returned (promise "fulfilled") or thrown ("rejected").
NoRequest == [url |-> "", method |-> "", body |-> [file |-> NULL]]
Returned(promise) == Call("done", NoRequest, NoResponse, promise)

Unresolved(i) == calls[i].pc # "done"
UnresolvedCalls == {i \in 1..Len(calls) : Unresolved(i)}

\* History: the kind of the last event ("init", "edit", "submit", "settle"),
\* for a settle the call, the awaited step and the response the call holds
\* (NoResponse when fetch itself failed), whether the call returned in this
\* event, and the number of requests issued before the event.
Event(kind, call, step, response, returned, before) ==
    [kind |-> kind, call |-> call, step |-> step, response |-> response,
     returned |-> returned, before |-> before]

Init ==
    /\ component \in Components
    /\ reportTitle = ""
    /\ name = ""
    /\ file = NULL
    /\ loading = FALSE
    /\ pdfUrl = NULL
    /\ error = NULL
    /\ calls = <<>>
    /\ objectUrls = {}
    /\ lastEvent = Event("init", 0, "none", NoResponse, FALSE, 0)

\* URL.createObjectURL: a URL no live object URL has.  No code revokes a
\* URL, so the live URLs are all the URLs ever created.
createObjectURL == "blob:" \o ToString(Cardinality(objectUrls) + 1)

\* How an awaited promise settles.
Fulfilled(v) == [settled |-> "fulfilled", value |-> v]
Rejected(e) == [settled |-> "rejected", reason |-> e]

\* response.json(): the parsed value, or a rejection when the text is no JSON
\* or the transfer breaks off.
ReadJson(body) ==
    CASE body.kind = "json" -> {Fulfilled(body.value)}
      [] body.kind = "broken" -> {Rejected(e) : e \in NetworkErrors}
      [] OTHER -> {Rejected(SyntaxError)}

\* response.blob(): the body as a Blob, or a rejection when the transfer
\* breaks off.
ReadBlob(body) ==
    IF body.kind = "broken"
    THEN {Rejected(e) : e \in NetworkErrors}
    ELSE {Fulfilled(body)}

\* ------------------------------------------------ ReportGenerator (App.jsx)

\* An onChange of the title input that also resets the message.
RG_setReportTitle_clearsError(t) ==
    /\ component = "ReportGenerator"
    /\ t # reportTitle
    /\ reportTitle' = t
    /\ error' = NULL
    /\ lastEvent' = Event("edit", 0, "title", NoResponse, FALSE, Len(calls))
    /\ UNCHANGED <<component, name, file, loading, pdfUrl, calls, objectUrls>>

\* onChange of the title input
RG_setReportTitle(t) ==
    /\ component = "ReportGenerator"
    /\ t # reportTitle
    /\ reportTitle' = t
    /\ lastEvent' = Event("edit", 0, "title", NoResponse, FALSE, Len(calls))
    /\ UNCHANGED <<component, name, file, loading, pdfUrl, error, calls,
                   objectUrls>>

\* onChange of the file input
RG_setFile(f) ==
    /\ component = "ReportGenerator"
    /\ f # file
    /\ file' = f
    /\ lastEvent' = Event("edit", 0, "file", NoResponse, FALSE, Len(calls))
    /\ UNCHANGED <<component, reportTitle, name, loading, pdfUrl, error, calls,
                   objectUrls>>

\* The submit button is disabled while loading; a disabled default button
\* also blocks the form's implicit submission.
RG_disabled == loading

\* The FormData of the request.
RG_formData == [file |-> file, reportTitle |-> Trim(reportTitle)]

RG_request ==
    [url |-> "http://localhost:8000/api/analyze", method |-> "POST",
     body |-> RG_formData]

\* if (!file)
RG_missingFile == ~Truthy(file)

\* if (!reportTitle.trim())
RG_missingTitle == ~Truthy(Trim(reportTitle))

\* handleSubmit to its first await: the resets, the validation, the fetch.
\* It is the handler of every submit event: the inputs' required attributes
\* are the browser's validation, which a form submitted from a script or a
\* test does not pass through, and the handler tests its inputs itself.
RG_handleSubmit ==
    /\ component = "ReportGenerator"
    /\ ~RG_disabled
    /\ pdfUrl' = NULL
    /\ IF RG_missingFile
       THEN /\ error' = "Please upload a CSV file."
            /\ UNCHANGED <<loading, calls>>
       ELSE IF RG_missingTitle
       THEN /\ error' = "Please enter a report title."
            /\ UNCHANGED <<loading, calls>>
       ELSE /\ Len(calls) < MaxRequests
            /\ error' = NULL
            /\ loading' = TRUE
            /\ calls' = Append(calls,
                               Call("fetch", RG_request, NoResponse, "pending"))
    /\ lastEvent' = Event("submit", 0, "none", NoResponse, FALSE, Len(calls))
    /\ UNCHANGED <<component, reportTitle, name, file, objectUrls>>

\* finally { setLoading(false) }, and the function returns or throws.
RG_finally(i, promise) ==
    /\ loading' = FALSE
    /\ calls' = [calls EXCEPT ![i] = Returned(promise)]

\* catch (e) { setError(...) }
RG_catch(i, e) ==
    /\ error' = "Network error. Please try again."
    /\ UNCHANGED <<pdfUrl, objectUrls>>
    /\ RG_finally(i, "fulfilled")

\* The fetch of call i settles: a response arrives, or fetch rejects.
RG_fetchSettles(i) ==
    /\ component = "ReportGenerator"
    /\ calls[i].pc = "fetch"
    /\ \/ \E r \in Responses :
            /\ calls' = [calls EXCEPT
                           ![i].pc = IF Ok(r.status) THEN "blob" ELSE "json",
                           ![i].request = NoRequest,
                           ![i].response = r]
            /\ lastEvent' = Event("settle", i, "fetch", r, FALSE, Len(calls))
            /\ UNCHANGED <<loading, pdfUrl, error, objectUrls>>
       \/ \E e \in NetworkErrors :
            /\ RG_catch(i, e)
            /\ lastEvent' =
                 Event("settle", i, "fetch", NoResponse, TRUE, Len(calls))
    /\ UNCHANGED <<component, reportTitle, name, file>>

\* if (!response.ok): the body read by response.json() settles.
RG_jsonSettles(i) ==
    /\ component = "ReportGenerator"
    /\ calls[i].pc = "json"
    /\ \E read \in ReadJson(calls[i].response.body) :
         IF read.settled = "rejected"
         THEN RG_catch(i, read.reason)
         ELSE LET err == read.value IN
              IF err.type = "null"
              THEN RG_catch(i, NullTypeError)
              ELSE /\ error' = IF Truthy(Get(err, "error"))
                               THEN Get(err, "error")
                               ELSE "Failed to generate report."
                   /\ UNCHANGED <<pdfUrl, objectUrls>>
                   /\ RG_finally(i, "fulfilled")
    /\ lastEvent' =
         Event("settle", i, "json", calls[i].response, TRUE, Len(calls))
    /\ UNCHANGED <<component, reportTitle, name, file>>

\* The body read by response.blob() settles.
RG_blobSettles(i) ==
    /\ component = "ReportGenerator"
    /\ calls[i].pc = "blob"
    /\ \E read \in ReadBlob(calls[i].response.body) :
         IF read.settled = "rejected"
         THEN RG_catch(i, read.reason)
         ELSE LET url == createObjectURL IN
              /\ objectUrls' = objectUrls \cup {url}
              /\ pdfUrl' = url
              /\ UNCHANGED error
              /\ RG_finally(i, "fulfilled")
    /\ lastEvent' =
         Event("settle", i, "blob", calls[i].response, TRUE, Len(calls))
    /\ UNCHANGED <<component, reportTitle, name, file>>

\* The download attribute of the link rendered beside the preview.
RG_download ==
    (IF Truthy(reportTitle) THEN reportTitle ELSE "report") \o ".pdf"

\* ------------------------------- App (unnamed/part_001) and analyzeData (api.js)

\* onChange of the name input
App_setName(t) ==
    /\ component = "App"
    /\ t # name
    /\ name' = t
    /\ lastEvent' = Event("edit", 0, "title", NoResponse, FALSE, Len(calls))
    /\ UNCHANGED <<component, reportTitle, file, loading, pdfUrl, error, calls,
                   objectUrls>>

\* onChange of the file input
App_setFile(f) ==
    /\ component = "App"
    /\ f # file
    /\ file' = f
    /\ lastEvent' = Event("edit", 0, "file", NoResponse, FALSE, Len(calls))
    /\ UNCHANGED <<component, reportTitle, name, loading, pdfUrl, error, calls,
                   objectUrls>>

\* The FormData of the request.
App_formData == [agentName |-> name, file |-> file]

analyzeData_request ==
    [url |-> "/api/analyze", method |-> "POST", body |-> App_formData]

\* The test with the file forgotten: if (!name)
App_missingInput_nameOnly == ~Truthy(name)

\* if (!name || !file)
App_missingInput == ~Truthy(name) \/ ~Truthy(file)

\* handleSubmit to its first await: the reset, the validation, and
\* analyzeData to its fetch.  The button is never disabled.
App_handleSubmit ==
    /\ component = "App"
    /\ IF App_missingInput
       THEN /\ error' = "Please enter a name and upload a CSV file."
            /\ UNCHANGED calls
       ELSE /\ Len(calls) < MaxRequests
            /\ error' = NULL
            /\ calls' = Append(calls, Call("fetch", analyzeData_request,
                                           NoResponse, "pending"))
    /\ lastEvent' = Event("submit", 0, "none", NoResponse, FALSE, Len(calls))
    /\ UNCHANGED <<component, reportTitle, name, file, loading, pdfUrl,
                   objectUrls>>

\* The handler without its catch: the exception leaves handleSubmit.
App_catch_missing(i, err) ==
    /\ calls' = [calls EXCEPT ![i] = Returned("rejected")]
    /\ UNCHANGED <<pdfUrl, error, objectUrls>>

\* catch (err) { setError(...) }, and the function returns.
App_catch(i, err) ==
    /\ error' = "Failed to generate PDF: " \o err.message
    /\ calls' = [calls EXCEPT ![i] = Returned("fulfilled")]
    /\ UNCHANGED <<pdfUrl, objectUrls>>

\* throw new Error(`Server error: ${res.status}`)
analyzeData_serverError(res) ==
    [name |-> "Error", message |-> "Server error: " \o ToString(res.status)]

\* analyzeData's fetch for call i settles: a response arrives, or fetch
\* rejects.
analyzeData_fetchSettles(i) ==
    /\ component = "App"
    /\ calls[i].pc = "fetch"
    /\ \/ \E res \in Responses :
            /\ IF ~Ok(res.status)
               THEN App_catch(i, analyzeData_serverError(res))
               ELSE /\ calls' = [calls EXCEPT ![i].pc = "blob",
                                              ![i].request = NoRequest,
                                              ![i].response = res]
                    /\ UNCHANGED <<pdfUrl, error, objectUrls>>
            /\ lastEvent' =
                 Event("settle", i, "fetch", res, ~Ok(res.status), Len(calls))
       \/ \E e \in NetworkErrors :
            /\ App_catch(i, e)
            /\ lastEvent' =
                 Event("settle", i, "fetch", NoResponse, TRUE, Len(calls))
    /\ UNCHANGED <<component, reportTitle, name, file, loading>>

\* The body read by res.blob() settles; analyzeData returns the URL and
\* handleSubmit displays it.
analyzeData_blobSettles(i) ==
    /\ component = "App"
    /\ calls[i].pc = "blob"
    /\ \E read \in ReadBlob(calls[i].response.body) :
         IF read.settled = "rejected"
         THEN App_catch(i, read.reason)
         ELSE LET url == createObjectURL IN
              /\ objectUrls' = objectUrls \cup {url}
              /\ pdfUrl' = url
              /\ calls' = [calls EXCEPT ![i] = Returned("fulfilled")]
              /\ UNCHANGED error
    /\ lastEvent' =
         Event("settle", i, "blob", calls[i].response, TRUE, Len(calls))
    /\ UNCHANGED <<component, reportTitle, name, file, loading>>

\* ------------------------------------------------------------- system
\* The events of a mounted ReportGenerator.
RG_Next ==
    \/ \E t \in Titles : RG_setReportTitle(t)
    \/ \E f \in FileChoices : RG_setFile(f)
    \/ RG_handleSubmit
    \/ \E i \in 1..Len(calls) : RG_fetchSettles(i)
    \/ \E i \in 1..Len(calls) : RG_jsonSettles(i)
    \/ \E i \in 1..Len(calls) : RG_blobSettles(i)

\* The events of a mounted App.
App_Next ==
    \/ \E t \in Titles : App_setName(t)
    \/ \E f \in FileChoices : App_setFile(f)
    \/ App_handleSubmit
    \/ \E i \in 1..Len(calls) : analyzeData_fetchSettles(i)
    \/ \E i \in 1..Len(calls) : analyzeData_blobSettles(i)

Next == RG_Next \/ App_Next

Spec == Init /\ [][Next]_vars

\* The page that mounts App.
App_Init == Init /\ component = "App"
AppSpec == App_Init /\ [][App_Next]_vars

\* The steps that settle what call i awaits.
SettlesCall(i) ==
    \/ RG_fetchSettles(i)
    \/ RG_jsonSettles(i)
    \/ RG_blobSettles(i)
    \/ analyzeData_fetchSettles(i)
    \/ analyzeData_blobSettles(i)

\* The network answers or fails every request, and every body read ends.
FairSpec ==
    /\ Spec
    /\ \A i \in 1..MaxRequests : WF_vars(i <= Len(calls) /\ SettlesCall(i))

TypeOK ==
    /\ component \in Components
    /\ reportTitle \in Titles
    /\ name \in Titles
    /\ file \in Files \cup {NULL, UNDEFINED}
    /\ loading \in BOOLEAN
    /\ Len(calls) <= MaxRequests

\* ------------------------------------------------------------- claims
\* The vocabulary of the claims, stated apart from the code's own tests.

\* sub occurs in s
Contains(s, sub) ==
    \E i \in 1..(Len(s) - Len(sub) + 1) : SubSeq(s, i, i + Len(sub) - 1) = sub

\* t is empty or whitespace only
IsBlank(t) == \A i \in 1..Len(t) : SubSeq(t, i, i) = " "

\* t without its leading and trailing whitespace
Stripped(t) ==
    IF IsBlank(t) THEN ""
    ELSE LET text == {i \in 1..Len(t) : SubSeq(t, i, i) # " "}
             first == CHOOSE i \in text : \A j \in text : i <= j
             last == CHOOSE i \in text : \A j \in text : j <= i
         IN  SubSeq(t, first, last)

FileSelected == file \in Files
TitleRelated(m) == Contains(m, "title") \/ Contains(m, "name")
FileRelated(m) == Contains(m, "file")

\* The last event was a submit, which issued this many requests.
Submitted == lastEvent.kind = "submit"
Issued == Len(calls) - lastEvent.before

\* The request of the last call and its multipart fields.
LastRequest == calls[Len(calls)].request
FieldOf(formData, field) ==
    IF field \in DOMAIN formData THEN formData[field] ELSE UNDEFINED
TitleField(formData) ==
    IF component = "ReportGenerator"
    THEN FieldOf(formData, "reportTitle")
    ELSE FieldOf(formData, "agentName")

\* The last event ended a call: with a response in hand, or with none.
Ended == lastEvent.kind = "settle" /\ lastEvent.returned
EndedWithResponse == Ended /\ lastEvent.response # NoResponse
EndedWithoutResponse == Ended /\ lastEvent.response = NoResponse

\* C1: a submit with an empty or whitespace-only title issues no request and
\* leaves a title-related error message displayed, whatever the file
\* selection is.
C1_BlankTitleRejected ==
    (Submitted /\ IsBlank(Title)) =>
        (Issued = 0 /\ error # NULL /\ TitleRelated(error))

\* C2: a submit with no file selected issues no request and leaves a
\* file-related error message displayed, whatever the title is.
C2_NoFileRejected ==
    (Submitted /\ ~FileSelected) =>
        (Issued = 0 /\ error # NULL /\ FileRelated(error))

\* C2's case: after an earlier request, the file is deselected and a form
\* with a proper title is submitted.
C2_Witness ==
    /\ Submitted
    /\ file = UNDEFINED
    /\ ~IsBlank(Title)
    /\ Len(calls) >= 1
    /\ Issued = 0
    /\ FileRelated(error)

\* C3: a submit with a file and a title that is not blank issues exactly one
\* request, whose multipart body carries the file and the title without its
\* leading and trailing whitespace; no other event issues a request.
C3_ValidSubmitSendsTrimmed ==
    /\ (Submitted /\ FileSelected /\ ~IsBlank(Title)) =>
          /\ Issued = 1
          /\ LastRequest.method = "POST"
          /\ FieldOf(LastRequest.body, "file") = file
          /\ TitleField(LastRequest.body) = Stripped(Title)
    /\ ~Submitted => Issued = 0

\* C4: at most one submission is unresolved at any time.
C4_AtMostOneInFlight == Cardinality(UnresolvedCalls) <= 1

\* The four result states of the claims.
Pending == UnresolvedCalls # {}
Success == pdfUrl # NULL
Failed == error # NULL
Idle == ~Pending /\ ~Success /\ ~Failed

\* C5: exactly one of Idle, Pending, Success, Failed holds: an error message
\* and a pdfUrl are never both set, and neither is set while a submission is
\* unresolved.
C5_ExactlyOneState ==
    /\ ~(Failed /\ Success)
    /\ Pending => (~Failed /\ ~Success)

\* C6: at most one object URL that was created and not released exists.
C6_AtMostOneLiveUrl == Cardinality(objectUrls) <= 1

\* The message a non-2xx response supplies in the error field of its JSON
\* body, or UNDEFINED.
ServerMessage(response) ==
    IF /\ response.body.kind = "json"
       /\ response.body.value.type = "object"
       /\ "error" \in DOMAIN response.body.value.fields
       /\ response.body.value.fields.error # ""
    THEN response.body.value.fields.error
    ELSE UNDEFINED

\* C7: a submission answered with a non-2xx status and a body that carries a
\* server-supplied error message ends Failed with exactly that message.
C7_ServerMessageShown ==
    (/\ EndedWithResponse
     /\ ~Ok(lastEvent.response.status)
     /\ ServerMessage(lastEvent.response) # UNDEFINED) =>
        error = ServerMessage(lastEvent.response)

\* The messages shown when no response arrived at all.
NetworkErrorMessages ==
    {"Network error. Please try again."}
    \cup {"Failed to generate PDF: " \o e.message : e \in NetworkErrors}

\* C8: no non-2xx response whose body arrived, parseable or not, ends with
\* the message shown for a transport-level failure.
C8_NetworkMessageDistinct ==
    (/\ EndedWithResponse
     /\ ~Ok(lastEvent.response.status)
     /\ lastEvent.response.body.kind # "broken") =>
        error \notin NetworkErrorMessages

\* C9: a non-2xx response whose body is no structured error data ends with a
\* message that embeds the response's status code.
C9_UnparseableEmbedsStatus ==
    (/\ EndedWithResponse
     /\ ~Ok(lastEvent.response.status)
     /\ lastEvent.response.body.kind = "text") =>
        (error # NULL /\ Contains(error, ToString(lastEvent.response.status)))

\* A call ended in failure: no response, a non-2xx response, or a body whose
\* transfer broke off.
EndedInFailure ==
    \/ EndedWithoutResponse
    \/ /\ EndedWithResponse
       /\ \/ ~Ok(lastEvent.response.status)
          \/ lastEvent.response.body.kind = "broken"

\* What holds in every state when every failure is caught: a call that ended
\* in failure leaves a message displayed, a call that ended leaves a message
\* or a pdfUrl displayed, no handleSubmit promise is rejected, and the
\* loading flag is set only while a call is unresolved.
FailuresCaught ==
    /\ EndedInFailure => Failed
    /\ Ended => (Failed \/ Success)
    /\ \A i \in 1..Len(calls) : calls[i].promise # "rejected"
    /\ loading => Pending

\* C10: every failure of a submission is caught and shown as a message and
\* no exception escapes handleSubmit; when the network answers or fails every
\* request, every unresolved call ends and the loading flag is cleared.
C10_EveryFailureCaught ==
    /\ []FailuresCaught
    /\ \A i \in 1..MaxRequests :
          (i <= Len(calls) /\ Unresolved(i)) ~>
              (/\ i <= Len(calls)
               /\ calls[i].pc = "done"
               /\ calls[i].promise = "fulfilled")
    /\ loading ~> ~loading

\* C10's case: the fetch of a call failed, the failure is displayed and the
\* loading flag is clear.
C10_Witness ==
    /\ EndedWithoutResponse
    /\ calls[lastEvent.call].promise = "fulfilled"
    /\ Failed
    /\ ~loading
    /\ ~Pending

\* The input of the form is invalid: no file, or a blank title.
InvalidInput == ~FileSelected \/ IsBlank(Title)

\* This step is a submit event.
SubmitStep == lastEvent'.kind = "submit"

\* C11: a submit of an invalid input issues no request, and a second submit
\* of the same invalid input right after the first leaves the result state
\* and the message as the first left them.
C11_InvalidSubmitIdempotent ==
    [][(SubmitStep /\ InvalidInput) =>
          /\ Len(calls') = Len(calls)
          /\ Submitted =>
                (/\ error' = error
                 /\ pdfUrl' = pdfUrl
                 /\ loading' = loading
                 /\ calls' = calls)]_vars

\* C12: a submit of a valid input enters Pending with the prior error message
\* and the prior pdfUrl cleared, so that no result of an earlier submission
\* is displayed while the new one is unresolved.
C12_ValidSubmitClearsResult ==
    (Submitted /\ FileSelected /\ ~IsBlank(Title)) =>
        (Issued = 1 /\ Pending /\ error = NULL /\ pdfUrl = NULL)

\* A status of the 2xx class.
Is2xx(status) == status \in 200..299

\* This step ends a call whose fetch failed or was answered with a status
\* outside 2xx.
FailureStep ==
    /\ lastEvent'.kind = "settle"
    /\ lastEvent'.returned
    /\ ~Is2xx(lastEvent'.response.status)

\* C13: an object URL is created, and pdfUrl is set, only by a step that
\* holds a 2xx response; a call that ends on a non-2xx response or on a
\* failed fetch creates no object URL, leaves pdfUrl as it was and leaves an
\* error message displayed.
C13_UrlOnlyFor2xx ==
    [][/\ (objectUrls' # objectUrls \/ pdfUrl' \notin {pdfUrl, NULL}) =>
            (/\ lastEvent'.kind = "settle"
             /\ Is2xx(lastEvent'.response.status))
       /\ FailureStep =>
            (/\ objectUrls' = objectUrls
             /\ pdfUrl' = pdfUrl
             /\ error' # NULL)]_vars

\* C13's case: after a report was created, a second submission was answered
\* with a status outside 2xx, and there is still one object URL.
C13_Witness ==
    /\ EndedWithResponse
    /\ ~Is2xx(lastEvent.response.status)
    /\ lastEvent.call = 2
    /\ Cardinality(objectUrls) = 1
    /\ Failed

\* This step is an edit of a form field.
EditStep == lastEvent'.kind = "edit"

\* C14: an edit of the title or of the file changes that field and nothing
\* else: loading, error and pdfUrl keep their values, no request is issued,
\* and the calls in flight keep the requests they sent.
C14_EditChangesOnlyField ==
    [][EditStep =>
          /\ loading' = loading
          /\ error' = error
          /\ pdfUrl' = pdfUrl
          /\ objectUrls' = objectUrls
          /\ calls' = calls
          /\ lastEvent'.step = "title" => (file' = file /\ Title' # Title)
          /\ lastEvent'.step = "file" => (Title' = Title /\ file' # file)]_vars

\* C14's case: the title was edited while a request is in flight, and the
\* request still carries the title it was sent with.
C14_Witness ==
    /\ lastEvent.kind = "edit"
    /\ lastEvent.step = "title"
    /\ calls # <<>>
    /\ calls[Len(calls)].pc = "fetch"
    /\ TitleField(LastRequest.body) \notin {Title, Trim(Title)}

\* This step ends a call after a call of a later submit has already ended.
StaleStep ==
    /\ lastEvent'.kind = "settle"
    /\ lastEvent'.returned
    /\ \E j \in (lastEvent'.call + 1)..Len(calls) : calls[j].pc = "done"

\* C15: the response to an earlier submission does not change what a later
\* submission has left displayed: a call that ends after a later call has
\* ended leaves error and pdfUrl as they are.
C15_LatestOutcomeDisplayed ==
    [][StaleStep => (error' = error /\ pdfUrl' = pdfUrl)]_vars

\* ReportGenerator keeps the same report displayed across this step.
SameReportStep ==
    /\ component = "ReportGenerator"
    /\ pdfUrl # NULL
    /\ pdfUrl' = pdfUrl

\* C16: the name offered by the download link of a displayed report is that
\* of the title sent in the request that produced it, so it stays the same
\* for as long as that report is displayed, whatever is typed in the title
\* field afterwards.
C16_DownloadNameOfRequest ==
    [][SameReportStep => RG_download' = RG_download]_vars

=============================================================================
